---- MODULE Spec2Model ----
(***************************************************************************)
(* Model of sm_lcg.py: a script that reads LCG parameters and a discrete   *)
(* demand distribution from input widgets, normalizes the probabilities,   *)
(* builds the rounded cumulative table, generates an LCG sequence, maps    *)
(* each uniform X/m to a demand, assembles the results table and computes  *)
(* the averages.  The script runs top to bottom, one section after the     *)
(* other, and is run again whenever an input is changed.                   *)
(*                                                                         *)
(* Numbers.  Python floats are modelled by exact arithmetic:               *)
(*   - a raw probability is an integer count of units, Scale units = 1.0;  *)
(*   - a quotient (p / prob_sum, x / m, an average) is a fraction          *)
(*     [num |-> n, den |-> d] with d > 0;                                  *)
(*   - a value rounded by round(v, 4) is an integer count of 10^-4.        *)
(* IEEE-754 rounding error of the float operations is not modelled.        *)
(***************************************************************************)
EXTENDS Integers, Sequences, FiniteSets

VARIABLES
    a, c, m, X0, n_days,      \* sidebar inputs (lines 19-23)
    demand_values,            \* demand inputs D1..Dk (line 44)
    prob_inputs,              \* probability inputs P1..Pk (line 49), in units
    pc,                       \* the section of the script that runs next
    prob_sum,                 \* line 54, in units
    signal,                   \* what the normalizer signalled (lines 56, 59)
    probabilities,            \* script variable probabilities (lines 49, 60)
    cum_probs,                \* line 68, in 10^-4
    X_values, U_values,       \* lines 98, 99
    demands_generated,        \* line 100
    df,                       \* results table (lines 105-110)
    stats,                    \* lines 118-126
    memo                      \* observer: one earlier finished run, kept for comparison

vars == <<a, c, m, X0, n_days, demand_values, prob_inputs, pc, prob_sum, signal,
          probabilities, cum_probs, X_values, U_values, demands_generated, df,
          stats, memo>>

inputs == <<a, c, m, X0, n_days, demand_values, prob_inputs>>
run == <<prob_sum, signal, probabilities, cum_probs, X_values, U_values,
         demands_generated, df, stats>>

----------------------------------------------------------------------------
(* Bounds of the model and the input values it draws from.                 *)

MaxDays == 3
MaxDemands == 3
MinDemands == 2
MinDays == 1

\* Units per 1.0: fine enough to tell 1e-6 apart (1e-6 = 4 units).
Scale == 4 * 1000000
TolDenominator == 1000000
Digits == 4

MultiplierChoices == {1, 13}
IncrementChoices == {0, 7}
ModulusChoices == {3, 4}
SeedChoices == {0, 35}
DaysChoices == MinDays..MaxDays

\* -0.125, 0, 0.5 and 0.5 + 0.75e-6: with them a list can sum to 0, to exactly 1,
\* to 1 + 0.75e-6 (inside the tolerance), to 1 + 1.5e-6 (outside) and to values
\* far from 1, and its running sum can go down.  No list sums to 1 +- 1e-6 itself.
ProbChoices == {-(Scale \div 8), 0, Scale \div 2, (Scale \div 2) + 3}

\* The value typed into a demand input.
DemandChoices == {10}

\* Lines 34-35; the probabilities in units.
default_demands_all == <<0, 10, 20, 30, 40, 50>>
default_probs_all == <<Scale \div 100, Scale \div 5, (Scale \div 100) * 15,
                       Scale \div 2, (Scale \div 100) * 12, Scale \div 50>>

----------------------------------------------------------------------------
(* Arithmetic.                                                             *)

Abs(x) == IF x < 0 THEN -x ELSE x
Sgn(x) == IF x < 0 THEN -1 ELSE IF x > 0 THEN 1 ELSE 0

\* Python's true division n / d (d # 0) as a fraction with a positive denominator.
Frac(n, d) == IF d < 0 THEN [num |-> -n, den |-> -d] ELSE [num |-> n, den |-> d]

\* x + y on fractions.
AddFrac(x, y) ==
    IF x.num = 0 THEN y
    ELSE IF y.num = 0 THEN x
    ELSE IF x.den = y.den THEN [num |-> x.num + y.num, den |-> x.den]
    ELSE [num |-> x.num * y.den + y.num * x.den, den |-> x.den * y.den]

RECURSIVE Gcd(_, _)
Gcd(x, y) == IF y = 0 THEN x ELSE Gcd(y, x % y)

\* Two fractions denote the same number (compared in lowest terms).
SameNumber(x, y) ==
    LET gx == Gcd(Abs(x.num), x.den)
        gy == Gcd(Abs(y.num), y.den)
    IN  /\ x.num \div gx = y.num \div gy
        /\ x.den \div gx = y.den \div gy

\* Long division: k more decimal digits of r / d behind the quotient q.
RECURSIVE LongDiv(_, _, _, _)
LongDiv(q, r, d, k) ==
    IF k = 0 THEN <<q, r>>
    ELSE LongDiv(q * 10 + ((r * 10) \div d), (r * 10) % d, d, k - 1)

\* round(v, 4) of the fraction v, as a count of 10^-4: nearest, ties to even.
round(v) ==
    LET n == Abs(v.num)
        res == LongDiv(n \div v.den, n % v.den, v.den, Digits)
        q == res[1]
        r == res[2]
        up == IF 2 * r > v.den THEN 1 ELSE IF 2 * r = v.den THEN q % 2 ELSE 0
    IN  Sgn(v.num) * (q + up)

RECURSIVE Pow10(_)
Pow10(k) == IF k = 0 THEN 1 ELSE 10 * Pow10(k - 1)

\* Variant of Leq: the comparison made strict.
Leq_Strict(u, cp) == u.num * Pow10(Digits) < cp * u.den

\* u <= cp, for a fraction u and a rounded value cp (a count of 10^-4).
Leq(u, cp) == u.num * Pow10(Digits) <= cp * u.den

RECURSIVE sum(_)
sum(s) == IF s = <<>> THEN 0 ELSE s[1] + sum(Tail(s))

----------------------------------------------------------------------------
(* The functions and sections of the script.                               *)

\* Line 55: prob_sum == 0.
AllZero(s) == s = 0

\* Variants of NeedsNormalizing: an exact comparison with 1.0; no normalization.
NeedsNormalizing_Exact(s) == s # Scale
NeedsNormalizing_Never(s) == FALSE

\* Line 58: abs(prob_sum - 1.0) > 1e-6, on units.
NeedsNormalizing(s) == Abs(s - Scale) > Scale \div TolDenominator

\* Line 60: [p / prob_sum for p in probabilities].
Normalized(probs, s) == [i \in 1..Len(probs) |-> Frac(probs[i], s)]

\* Line 49: the probabilities as entered, as fractions of 1.
Entered(probs) == [i \in 1..Len(probs) |-> Frac(probs[i], Scale)]

\* Lines 66-68: the loop over probabilities from index i on.
RECURSIVE CumLoop(_, _, _, _)
CumLoop(probs, i, cum_sum, out) ==
    IF i > Len(probs) THEN out
    ELSE LET s == AddFrac(cum_sum, probs[i])
         IN  CumLoop(probs, i + 1, s, Append(out, round(s)))

\* Line 65 and the loop: cum_probs, cum_sum = [], 0.
Cumulative(probs) == CumLoop(probs, 1, Frac(0, 1), <<>>)

\* Variant of LcgStep: the reduction modulo m left out.
LcgStep_NoModulus(X, mul, inc, mod) == mul * X + inc

\* Line 85: one step of the recurrence.
LcgStep(X, mul, inc, mod) == (mul * X + inc) % mod

\* Lines 84-86: k more iterations of the loop.
RECURSIVE LcgLoop(_, _, _, _, _, _)
LcgLoop(X, mul, inc, mod, k, numbers) ==
    IF k = 0 THEN numbers
    ELSE LET X1 == LcgStep(X, mul, inc, mod)
         IN  LcgLoop(X1, mul, inc, mod, k - 1, Append(numbers, X1))

\* Variant of NoNumbers: the list of an earlier call kept (a shared list).
NoNumbers_Carried == IF memo = <<>> THEN <<>> ELSE memo[1].results[1]

\* Line 82: numbers = [].
NoNumbers == <<>>

\* Variant of generate_lcg: the seed emitted as the first element.
generate_lcg_SeedFirst(seed, mul, inc, mod, n) ==
    IF n = 0 THEN <<>> ELSE LcgLoop(seed, mul, inc, mod, n - 1, <<seed>>)

\* Lines 81-87.
generate_lcg(seed, mul, inc, mod, n) == LcgLoop(seed, mul, inc, mod, n, NoNumbers)

\* Lines 90-93: the scan from index i on, and the fallback.
RECURSIVE MapFrom(_, _, _, _)
MapFrom(u, demands, cum, i) ==
    IF i > Len(cum) THEN demands[Len(demands)]
    ELSE IF Leq(u, cum[i]) THEN demands[i]
    ELSE MapFrom(u, demands, cum, i + 1)

\* Lines 89-93.
map_to_demand(u, demands, cum) == MapFrom(u, demands, cum, 1)

\* Line 99: x / m.
Uniform(x, mod) == Frac(x, mod)

\* Variant of MapArgument: the uniform rounded as the results table shows it.
MapArgument_Rounded(u) == Frac(round(u), Pow10(Digits))

\* Line 100: the uniform handed to map_to_demand.
MapArgument(u) == u

\* Lines 105-110: one row of the results table.
Row(k, xs, us, ds) == [Day |-> k, X |-> xs[k], U |-> round(us[k]), Demand |-> ds[k]]

\* Lines 38-39 with 44 and 49: a list resized to k entries keeps its first
\* entries and takes the defaults for the new ones.
Resized(old, defaults, k) ==
    [i \in 1..k |-> IF i <= Len(old) THEN old[i] ELSE defaults[i]]

----------------------------------------------------------------------------
(* The script as a state machine.  In Spec the number of demand values    *)
(* varies and the demand inputs keep their defaults; in SpecDet (below)    *)
(* the demand inputs are edited and the number of demand values is fixed.  *)

\* The state before a run of the script: nothing assigned yet.

Fresh ==
    /\ prob_sum = 0
    /\ signal = "none"
    /\ probabilities = <<>>
    /\ cum_probs = <<>>
    /\ X_values = <<>>
    /\ U_values = <<>>
    /\ demands_generated = <<>>
    /\ df = <<>>
    /\ stats = <<>>

Init ==
    /\ a \in MultiplierChoices
    /\ c \in IncrementChoices
    /\ m \in ModulusChoices
    /\ X0 \in SeedChoices
    /\ n_days \in DaysChoices
    /\ \E k \in MinDemands..MaxDemands :
          /\ demand_values = SubSeq(default_demands_all, 1, k)
          /\ prob_inputs \in [1..k -> ProbChoices]
    /\ pc = "normalize"
    /\ Fresh
    /\ memo = <<>>

\* Lines 54-60.
Normalize ==
    /\ pc = "normalize"
    /\ prob_sum' = sum(prob_inputs)
    /\ signal' = IF AllZero(prob_sum') THEN "error"
                 ELSE IF NeedsNormalizing(prob_sum') THEN "warning" ELSE "none"
    /\ probabilities' = IF ~AllZero(prob_sum') /\ NeedsNormalizing(prob_sum')
                        THEN Normalized(prob_inputs, prob_sum')
                        ELSE Entered(prob_inputs)
    /\ pc' = "cumulative"
    /\ UNCHANGED <<inputs, cum_probs, X_values, U_values, demands_generated, df,
                   stats, memo>>

\* Lines 65-68.
BuildCumulative ==
    /\ pc = "cumulative"
    /\ cum_probs' = Cumulative(probabilities)
    /\ pc' = "simulate"
    /\ UNCHANGED <<inputs, prob_sum, signal, probabilities, X_values, U_values,
                   demands_generated, df, stats, memo>>

\* Lines 98-100.
RunSimulation ==
    /\ pc = "simulate"
    /\ X_values' = generate_lcg(X0, a, c, m, n_days)
    /\ U_values' = [k \in 1..Len(X_values') |-> Uniform(X_values'[k], m)]
    /\ demands_generated' =
          [k \in 1..Len(U_values') |->
              map_to_demand(MapArgument(U_values'[k]), demand_values, cum_probs)]
    /\ pc' = "table"
    /\ UNCHANGED <<inputs, prob_sum, signal, probabilities, cum_probs, df, stats, memo>>

\* Lines 105-110.
ResultsTable ==
    /\ pc = "table"
    /\ df' = [k \in 1..n_days |-> Row(k, X_values, U_values, demands_generated)]
    /\ pc' = "calculations"
    /\ UNCHANGED <<inputs, prob_sum, signal, probabilities, cum_probs, X_values,
                   U_values, demands_generated, stats, memo>>

\* Lines 118-126.  An average is a fraction; a value that is not computed is <<>>.
Calculations ==
    /\ pc = "calculations"
    /\ stats' = [avg_6 |-> IF n_days >= 6
                           THEN <<Frac(sum(SubSeq(demands_generated, 1, 6)), 6)>>
                           ELSE <<>>,
                 avg_n |-> Frac(sum(demands_generated), n_days),
                 day_5 |-> IF n_days >= 5 THEN <<demands_generated[5]>> ELSE <<>>]
    /\ pc' = "done"
    \* the observer notes a finished run of other inputs than the one it keeps
    /\ memo' = IF memo # <<>> /\ memo[1].inputs # inputs
               THEN <<[memo[1] EXCEPT !.between = TRUE]>>
               ELSE memo
    /\ UNCHANGED <<inputs, prob_sum, signal, probabilities, cum_probs, X_values,
                   U_values, demands_generated, df>>

\* A changed input runs the script again from the top, with nothing assigned.
Rerun ==
    /\ pc = "done"
    /\ pc' = "normalize"
    /\ prob_sum' = 0
    /\ signal' = "none"
    /\ probabilities' = <<>>
    /\ cum_probs' = <<>>
    /\ X_values' = <<>>
    /\ U_values' = <<>>
    /\ demands_generated' = <<>>
    /\ df' = <<>>
    /\ stats' = <<>>
    /\ UNCHANGED memo

SetMultiplier ==
    /\ Rerun
    /\ a' \in MultiplierChoices \ {a}
    /\ UNCHANGED <<c, m, X0, n_days, demand_values, prob_inputs>>

SetIncrement ==
    /\ Rerun
    /\ c' \in IncrementChoices \ {c}
    /\ UNCHANGED <<a, m, X0, n_days, demand_values, prob_inputs>>

SetModulus ==
    /\ Rerun
    /\ m' \in ModulusChoices \ {m}
    /\ UNCHANGED <<a, c, X0, n_days, demand_values, prob_inputs>>

SetSeed ==
    /\ Rerun
    /\ X0' \in SeedChoices \ {X0}
    /\ UNCHANGED <<a, c, m, n_days, demand_values, prob_inputs>>

SetDays ==
    /\ Rerun
    /\ n_days' \in DaysChoices \ {n_days}
    /\ UNCHANGED <<a, c, m, X0, demand_values, prob_inputs>>

SetNumDemands ==
    /\ Rerun
    /\ \E k \in (MinDemands..MaxDemands) \ {Len(demand_values)} :
          /\ demand_values' = Resized(demand_values, default_demands_all, k)
          /\ prob_inputs' = Resized(prob_inputs, default_probs_all, k)
    /\ UNCHANGED <<a, c, m, X0, n_days>>

SetDemand ==
    /\ Rerun
    /\ \E i \in 1..Len(demand_values) : \E v \in DemandChoices \ {demand_values[i]} :
          demand_values' = [demand_values EXCEPT ![i] = v]
    /\ UNCHANGED <<a, c, m, X0, n_days, prob_inputs>>

SetProbability ==
    /\ Rerun
    /\ \E i \in 1..Len(prob_inputs) : \E v \in ProbChoices \ {prob_inputs[i]} :
          prob_inputs' = [prob_inputs EXCEPT ![i] = v]
    /\ UNCHANGED <<a, c, m, X0, n_days, demand_values>>

Next ==
    \/ Normalize
    \/ BuildCumulative
    \/ RunSimulation
    \/ ResultsTable
    \/ Calculations
    \/ SetMultiplier
    \/ SetIncrement
    \/ SetModulus
    \/ SetSeed
    \/ SetDays
    \/ SetNumDemands
    \/ SetProbability

Spec == Init /\ [][Next]_vars

----------------------------------------------------------------------------
(* generate_lcg called on its own, over the arguments the function accepts *)
(* (the sidebar only passes m >= 2 and n >= 1; m = 0 raises                *)
(* ZeroDivisionError in line 85 and is left out).                          *)

CallModulusChoices == ModulusChoices \cup {1, 2, 100}
CallCountChoices == 0..MaxDays

InitLcg ==
    /\ a \in MultiplierChoices
    /\ c \in IncrementChoices
    /\ m \in CallModulusChoices
    /\ X0 \in SeedChoices
    /\ n_days \in CallCountChoices
    /\ demand_values = <<>>
    /\ prob_inputs = <<>>
    /\ pc = "call"
    /\ Fresh
    /\ memo = <<>>

CallGenerateLcg ==
    /\ pc = "call"
    /\ X_values' = generate_lcg(X0, a, c, m, n_days)
    /\ pc' = "return"
    /\ UNCHANGED <<inputs, prob_sum, signal, probabilities, cum_probs, U_values,
                   demands_generated, df, stats, memo>>

NextLcg == CallGenerateLcg

SpecLcg == InitLcg /\ [][NextLcg]_vars

----------------------------------------------------------------------------
(* Two runs compared: an observer keeps one finished run (of the default   *)
(* multiplier, increment and seed of lines 19, 20 and 22, over MaxDays     *)
(* days) and notes when a run of other inputs has finished after it.       *)

results == <<X_values, U_values, demands_generated, df>>

IsReference == a = 13 /\ c = 7 /\ X0 = 35 /\ n_days = MaxDays

Snapshot ==
    /\ pc = "done"
    /\ memo = <<>>
    /\ IsReference
    /\ memo' = <<[inputs |-> inputs, results |-> results, between |-> FALSE]>>
    /\ UNCHANGED <<inputs, pc, run>>

InitDet ==
    /\ Init
    /\ Len(demand_values) = MinDemands

NextDet ==
    \/ Normalize
    \/ BuildCumulative
    \/ RunSimulation
    \/ ResultsTable
    \/ Calculations
    \/ SetMultiplier
    \/ SetIncrement
    \/ SetModulus
    \/ SetSeed
    \/ SetDays
    \/ SetDemand
    \/ SetProbability
    \/ Snapshot

SpecDet == InitDet /\ [][NextDet]_vars

----------------------------------------------------------------------------
(* Properties.                                                             *)

Simulated == pc \in {"table", "calculations", "done"}
TenK == Pow10(Digits)

\* The indices i of the cumulative table with X_values[k] / m <= cum_probs[i].
Hits(k) == {i \in 1..Len(cum_probs) : X_values[k] * TenK <= cum_probs[i] * m}

\* The demand the inverse-CDF rule gives day k: that of the lowest index in
\* Hits(k), the last demand when there is none.
RuleDemand(k, d) ==
    IF Hits(k) = {} THEN d = demand_values[Len(demand_values)]
    ELSE \E i \in Hits(k) : (\A j \in Hits(k) : i <= j) /\ d = demand_values[i]

\* C1: for m >= 2 and n >= 0, generate_lcg(seed, a, c, m, n) returns exactly n
\* integers, the first (a*seed + c) mod m and each later one (a*previous + c) mod m,
\* so the seed is not emitted; seed=35, a=13, c=7, m=100, n=3 gives [62, 13, 76].
C1_LcgRecurrence ==
    (pc = "return" /\ m >= 2) =>
        /\ Len(X_values) = n_days
        /\ \A k \in 1..n_days :
              X_values[k] = (a * (IF k = 1 THEN X0 ELSE X_values[k - 1]) + c) % m
        /\ (X0 = 35 /\ a = 13 /\ c = 7 /\ m = 100 /\ n_days = 3)
              => X_values = <<62, 13, 76>>

C1_Witness ==
    /\ pc = "return"
    /\ X0 = 35 /\ a = 13 /\ c = 7 /\ m = 100 /\ n_days = 3
    /\ X_values = <<62, 13, 76>>

\* C2: map_to_demand returns the demand at the lowest index i with u <= cum_probs[i]
\* (a u equal to a threshold goes to the lower bucket) and the last demand when
\* no index has u <= cum_probs[i].
\* With demands [0, 10, 20] and thresholds [0.2, 0.7, 1.0], u = 0.2 gives 0 and
\* u = 0.71 gives 20.
C2_FirstIndexOrLast ==
    /\ Simulated =>
          /\ Len(demands_generated) = Len(X_values)
          /\ \A k \in 1..Len(X_values) : RuleDemand(k, demands_generated[k])
    /\ map_to_demand(Frac(2, 10), <<0, 10, 20>>, <<2000, 7000, 10000>>) = 0
    /\ map_to_demand(Frac(71, 100), <<0, 10, 20>>, <<2000, 7000, 10000>>) = 20

C2_Witness ==
    /\ Simulated
    /\ \E k \in 1..Len(X_values) : \E i \in 1..(Len(cum_probs) - 1) :
          /\ X_values[k] * TenK = cum_probs[i] * m
          /\ i \in Hits(k) /\ \A j \in Hits(k) : i <= j
          /\ demand_values[i] # demand_values[i + 1]
          /\ demands_generated[k] = demand_values[i]
    /\ \E k \in 1..Len(X_values) :
          /\ Hits(k) = {}
          /\ demands_generated[k] = demand_values[Len(demand_values)]

\* C3 (as claimed): when the raw probabilities sum to exactly 0 the run fails and is
\* aborted before any LCG work: no LCG value is generated, no demand is mapped
\* through the cumulative table, and no results table or statistic is produced.
C3_AbortOnZeroSum ==
    (pc # "normalize" /\ sum(prob_inputs) = 0) =>
        /\ signal = "error"
        /\ X_values = <<>>
        /\ demands_generated = <<>>
        /\ df = <<>>
        /\ stats = <<>>

\* C4: for a raw list whose sum is not 0: if |sum - 1| > 1e-6 every element p is
\* replaced by p / sum (same length, same order) and a warning is signalled; if
\* |sum - 1| <= 1e-6 the list is passed through unchanged with no warning.
\* [0.1, 0.1] becomes [0.5, 0.5].
C4_Normalizer ==
    /\ (pc # "normalize" /\ sum(prob_inputs) # 0) =>
          /\ Len(probabilities) = Len(prob_inputs)
          /\ IF Abs(sum(prob_inputs) - Scale) > Scale \div TolDenominator
             THEN /\ signal = "warning"
                  /\ \A i \in 1..Len(prob_inputs) :
                        SameNumber(probabilities[i],
                                   Frac(prob_inputs[i], sum(prob_inputs)))
             ELSE /\ signal = "none"
                  /\ \A i \in 1..Len(prob_inputs) :
                        probabilities[i] = [num |-> prob_inputs[i], den |-> Scale]
    /\ LET tenth == <<Scale \div 10, Scale \div 10>>
       IN  /\ ~AllZero(sum(tenth)) /\ NeedsNormalizing(sum(tenth))
           /\ \A i \in 1..2 : SameNumber(Normalized(tenth, sum(tenth))[i], Frac(1, 2))

\* A list that sums to 1 + 0.75e-6 passed through unchanged.
C4_Witness ==
    /\ pc = "done"
    /\ sum(prob_inputs) = Scale + 3
    /\ signal = "none"
    /\ \E i \in 1..Len(prob_inputs) :
          probabilities[i] = [num |-> (Scale \div 2) + 3, den |-> Scale]

\* C5 (as claimed): for every raw list whose sum is not 0, the cumulative table has
\* the length of the list, is non-decreasing, and ends within 1e-4 of 1.0.
C5_CumulativeMonotone ==
    (pc \notin {"normalize", "cumulative"} /\ sum(prob_inputs) # 0) =>
        /\ Len(cum_probs) = Len(prob_inputs)
        /\ \A i \in 1..(Len(cum_probs) - 1) : cum_probs[i] <= cum_probs[i + 1]
        /\ Abs(cum_probs[Len(cum_probs)] - TenK) <= 1

\* C6: every emitted X[k] has 0 <= X[k] < m, and U[k] = X[k] / m has 0 <= U[k] < 1.
C6_Ranges ==
    Simulated =>
        \A k \in 1..Len(X_values) :
            /\ 0 <= X_values[k] /\ X_values[k] < m
            /\ SameNumber(U_values[k], [num |-> X_values[k], den |-> m])
            /\ 0 <= U_values[k].num /\ U_values[k].num < U_values[k].den

C6_Witness ==
    /\ pc = "done"
    /\ \E k \in 1..Len(X_values) : X_values[k] = m - 1 /\ U_values[k].num = m - 1
    /\ \E k \in 1..Len(X_values) : X_values[k] = 0

\* C7 (as claimed): a call with modulus < 2 or count < 1 is rejected before
\* generation starts: generate_lcg produces no element for it.
C7_InvalidParamsRejected ==
    (m < 2 \/ n_days < 1) => X_values = <<>>

\* C8 (as claimed): the results table has n entries, days 1..n in order, entry k
\* holding X[k], the unrounded X[k] / m, and the demand mapped from the unrounded
\* uniform and the rounded cumulative table.
C8_TableUnrounded ==
    (pc = "done" /\ sum(prob_inputs) # 0) =>
        /\ Len(df) = n_days
        /\ \A k \in 1..Len(df) :
              /\ df[k].Day = k
              /\ df[k].X = X_values[k]
              /\ df[k].U * m = X_values[k] * TenK
              /\ RuleDemand(k, df[k].Demand)

\* C8 (amended): as above, but the table's uniform is X[k] / m rounded to 4
\* decimal digits (the multiple of 10^-4 nearest to X[k] / m); the unrounded
\* X[k] / m is what U_values holds and what the demand is mapped from.
\* The default distribution has thresholds [0.01, 0.21, 0.36, 0.86, 0.98, 1.00]
\* and seed=35, a=13, c=7, m=100 gives demands 30, 10, 30 on days 1, 2, 3.
C8_TableRounded ==
    /\ (pc = "done" /\ sum(prob_inputs) # 0) =>
          /\ Len(df) = n_days
          /\ Len(X_values) = n_days
          /\ \A k \in 1..Len(df) :
                /\ df[k].Day = k
                /\ df[k].X = X_values[k]
                /\ 2 * Abs(df[k].U * m - X_values[k] * TenK) <= m
                /\ SameNumber(U_values[k], [num |-> X_values[k], den |-> m])
                /\ RuleDemand(k, df[k].Demand)
    /\ LET cum == Cumulative(Entered(default_probs_all))
           xs == generate_lcg(35, 13, 7, 100, 3)
       IN  /\ cum = <<100, 2100, 3600, 8600, 9800, 10000>>
           /\ [k \in 1..3 |-> map_to_demand(MapArgument(Uniform(xs[k], 100)),
                                            default_demands_all, cum)]
                 = <<30, 10, 30>>

\* A day whose rounded uniform differs from X / m and falls in another bucket
\* than the unrounded one.
C8_Witness ==
    /\ pc = "done" /\ sum(prob_inputs) # 0
    /\ \E k \in 1..Len(df) : \E i \in 1..Len(cum_probs) :
          /\ df[k].U * m # X_values[k] * TenK
          /\ df[k].U <= cum_probs[i]
          /\ i \notin Hits(k)
          /\ df[k].Demand # demand_values[i]

\* C9: a run whose inputs equal those of an earlier finished run yields the same
\* LCG sequence and the same results, whatever ran in between.
C9_SameInputsSameResults ==
    (memo # <<>> /\ memo[1].inputs = inputs) =>
        /\ Simulated => X_values = memo[1].results[1]
        /\ pc = "done" => results = memo[1].results

C9_Witness ==
    /\ pc = "done"
    /\ memo # <<>>
    /\ memo[1].between
    /\ memo[1].inputs = inputs
    /\ results = memo[1].results

====
